---- MODULE Spec2Model ----
(***************************************************************************)
(* Model of struct_cache_field (kenoss/cache_field): the compile-time      *)
(* storage shared by #[impl_cached_method] and #[add_cache_field]          *)
(* (src/src/storage.rs), the two attribute macros (src/src/lib.rs), and    *)
(* the run-time behaviour of the methods they generate.                    *)
(*                                                                         *)
(* Token streams are sequences of tokens (TLA+ strings); a Rust String     *)
(* obtained with to_string() is the sequence of the tokens separated by    *)
(* the element " ", and parsing a String drops the separators again.       *)
(***************************************************************************)
EXTENDS Integers, Sequences, FiniteSets

VARIABLES
    STORAGE,      \* storage.rs: the map behind the Mutex
    lock,         \* the Mutex: 0 when free, else the caller holding it
    pc,           \* each concurrent caller's position in register/withdraw
    call,         \* each concurrent caller's current call
    result,       \* each concurrent caller's last result
    inserted,     \* history: per key, the number of inserts executed
    live,         \* history: per key, the calls registered since its last removal
    nWithdrawn,   \* history: per key, the number of withdrawals that returned Ok
    ncalls,       \* the number of calls started by the concurrent callers
    last,         \* the last macro application: its arguments, input and output
    build,        \* a crate being expanded: its declarations and their expansions
    obj,          \* run time: an object of an annotated type, with its cache fields
    ret,          \* run time: the last call of a generated method and what it returned
    first,        \* history: per generated method, what its first call returned
    ncall,        \* history: per generated method, the number of calls
    evals         \* history: per generated method, the evaluations of its original body

vars ==
    <<STORAGE, lock, pc, call, result, inserted, live, nWithdrawn, ncalls, last, build,
      obj, ret, first, ncall, evals>>
runtime == <<obj, ret, first, ncall, evals>>
callers == <<lock, pc, call, result, inserted, live, nWithdrawn, ncalls>>

\* ------------------------------------------------------------ bounds
NumProcs == 2
MaxCalls == 3
MaxVal == 2
MaxCount == 2
MaxFairCalls == 2

\* ------------------------------------------------------------ results
None == [tag |-> "None"]
Some(x) == [tag |-> "Some", val |-> x]
Ok(x) == [ok |-> TRUE, val |-> x]
Err(kind, payload) == [ok |-> FALSE, kind |-> kind, payload |-> payload]
NoResult == [ok |-> FALSE, kind |-> "pending", payload |-> <<>>]

\* ------------------------------------------------------------ strings
\* TokenStream::to_string(): the tokens, separated by spaces.
to_string(ts) == [i \in 1..(2 * Len(ts) - 1) |-> IF i % 2 = 1 THEN ts[(i + 1) \div 2] ELSE " "]

\* str::parse::<TokenStream>(): the tokens of the text, in order.
IsToken(c) == c # " "
ParseTokens(s) == SelectSeq(s, IsToken)

\* unwrap_or(&S("")) of an Option<String>.
UnwrapOrEmpty(o) == IF o.tag = "Some" THEN o.val ELSE <<>>

\* ------------------------------------------------------------ syntax
\* A path segment: an identifier and its generic arguments (tokens, <<>> for none).
Seg(ident, arguments) == [ident |-> ident, arguments |-> arguments]
\* syn::Type: Type::Path with its segments, or any other kind of type with its tokens.
TypePath(segments) == [kind |-> "Path", segments |-> segments]
TypeOther(tokens) == [kind |-> "Other", tokens |-> tokens]

\* to_token_stream() of a path: the segments joined by `::`.
RECURSIVE PathTokens(_)
PathTokens(segs) ==
    IF segs = <<>> THEN <<>>
    ELSE <<Head(segs).ident>> \o Head(segs).arguments
         \o (IF Len(segs) > 1 THEN <<"::">> ELSE <<>>) \o PathTokens(Tail(segs))

\* syn::Generics: the parameters (each its tokens) and the optional where-clause.
Generics(params, where_clause) == [params |-> params, where_clause |-> where_clause]

\* Generics::to_token_stream(): `< p1 , p2 >`, nothing when there is no parameter;
\* the where-clause is not part of it.
RECURSIVE ParamTokens(_)
ParamTokens(ps) ==
    IF ps = <<>> THEN <<>>
    ELSE Head(ps).tokens \o (IF Len(ps) > 1 THEN <<",">> ELSE <<>>) \o ParamTokens(Tail(ps))
GenericsTokens(g) == IF g.params = <<>> THEN <<>> ELSE <<"<">> \o ParamTokens(g.params) \o <<">">>

\* generics.to_token_stream().to_string()
GenericsString(g) == to_string(GenericsTokens(g))
\* generics.where_clause.as_ref().map(|x| x.to_token_stream().to_string())
WhereString(g) == IF g.where_clause.tag = "Some" THEN Some(to_string(g.where_clause.val)) ELSE None

\* ------------------------------------------------------------ storage.rs
\* struct Value
Value(generics, where_clause, cache_fields) ==
    [generics |-> generics, where_clause |-> where_clause, cache_fields |-> cache_fields]

\* HashMap operations on a map held as a function from the keys present.
contains_key(map, key) == key \in DOMAIN map
insert(map, key, value) == [k \in (DOMAIN map) \cup {key} |-> IF k = key THEN value ELSE map[k]]
\* Mutant: the entry is read (get) and left in the map.
remove_Keep(map, key) == map
remove(map, key) == [k \in (DOMAIN map) \ {key} |-> map[k]]

\* Mutant: the key is the identifier of the last segment alone.
RegisterKey_LastSegment(ty) == to_string(<<ty.segments[Len(ty.segments)].ident>>)
\* register_cache_fields, lines 33-37: the key is the path with the arguments of
\* its last segment removed, printed.
RegisterKey(ty) ==
    LET n == Len(ty.segments)
        ty_ == [i \in 1..n |-> IF i = n THEN Seg(ty.segments[i].ident, <<>>) ELSE ty.segments[i]]
    IN to_string(PathTokens(ty_))

\* register_cache_fields, lines 38-51: the value stored.
RegisterValue(generics, cache_fields) ==
    Value(GenericsString(generics), WhereString(generics),
          [i \in 1..Len(cache_fields) |-> to_string(cache_fields[i])])

\* withdraw_cache_fields, line 69: the key is the struct's identifier, printed.
WithdrawKey(ident) == to_string(<<ident>>)

\* Mutant: only the parameter lists are compared.
GenericsCoincide_ParamsOnly(generics, value) == GenericsString(generics) = value.generics
\* withdraw_cache_fields, line 83: the comparison of the two signatures.
GenericsCoincide(generics, value) ==
    GenericsString(generics) = value.generics /\ WhereString(generics) = value.where_clause

\* withdraw_cache_fields, lines 84-97: the error with both signatures in its message.
GenericsDiffer(generics, value) ==
    Err("GenericsMismatch",
        <<value.generics, UnwrapOrEmpty(value.where_clause),
          GenericsString(generics), UnwrapOrEmpty(WhereString(generics))>>)

\* syn::Field::parse_named.parse2(field.parse().unwrap()).unwrap(): `ident : ty`.
ParseNamed(s) ==
    LET ts == ParseTokens(s)
    IN [ident |-> ts[1], colon_token |-> ts[2], ty |-> SubSeq(ts, 3, Len(ts))]
\* Mutant: the fields are returned in reverse order.
ParseFields_Reversed(value) ==
    LET n == Len(value.cache_fields)
    IN [i \in 1..n |-> ParseNamed(value.cache_fields[n + 1 - i])]
\* withdraw_cache_fields, lines 100-108.
ParseFields(value) == [i \in 1..Len(value.cache_fields) |-> ParseNamed(value.cache_fields[i])]
\* ToTokens of a syn::Field.
FieldTokens(f) == <<f.ident, f.colon_token>> \o f.ty

\* Mutant: a missing entry yields no cache fields instead of an error.
WithdrawResult_SilentEmpty(map, key, generics) ==
    IF ~contains_key(map, key) THEN Ok(<<>>)
    ELSE IF ~GenericsCoincide(generics, map[key]) THEN GenericsDiffer(generics, map[key])
    ELSE Ok(ParseFields(map[key]))
\* withdraw_cache_fields, lines 71-111 under the guard: the result of the function.
WithdrawResult(map, key, generics) ==
    IF ~contains_key(map, key) THEN Err("EntryMissing", <<>>)
    ELSE IF ~GenericsCoincide(generics, map[key]) THEN GenericsDiffer(generics, map[key])
    ELSE Ok(ParseFields(map[key]))

\* Mutant: the entry is removed only when the signatures coincide.
withdraw_cache_fields_KeepOnMismatch(map, ty, generics) ==
    LET key == WithdrawKey(ty)
        res == WithdrawResult(map, key, generics)
    IN [res |-> res, map |-> IF res.ok THEN remove(map, key) ELSE map]
\* withdraw_cache_fields run by one caller alone: its result and the map afterwards.
withdraw_cache_fields(map, ty, generics) ==
    LET key == WithdrawKey(ty)
    IN [res |-> WithdrawResult(map, key, generics), map |-> remove(map, key)]

\* Mutant: the value is inserted before the duplicate is reported.
register_cache_fields_InsertThenFail(map, ty, generics, cache_fields) ==
    IF ty.kind # "Path" THEN [res |-> Err("ExpectedTypePath", <<>>), map |-> map]
    ELSE [res |-> IF contains_key(map, RegisterKey(ty))
                  THEN Err("DuplicateRegistration", <<>>) ELSE Ok(<<>>),
          map |-> insert(map, RegisterKey(ty), RegisterValue(generics, cache_fields))]
\* register_cache_fields run by one caller alone: its result and the map afterwards.
register_cache_fields(map, ty, generics, cache_fields) ==
    IF ty.kind # "Path" THEN [res |-> Err("ExpectedTypePath", <<>>), map |-> map]
    ELSE IF contains_key(map, RegisterKey(ty))
         THEN [res |-> Err("DuplicateRegistration", <<>>), map |-> map]
         ELSE [res |-> Ok(<<>>),
               map |-> insert(map, RegisterKey(ty), RegisterValue(generics, cache_fields))]

\* ------------------------------------------------------------ lib.rs
\* syn::ImplItem: a method (ImplItem::Fn) with its name, return type (None for
\* ReturnType::Default) and body, or any other item of the block with its tokens.
ImplItemFn(ident, output, block) ==
    [kind |-> "Fn", ident |-> ident, output |-> output, block |-> block]
ImplItemOther(tokens) == [kind |-> "Other", tokens |-> tokens]

\* syn::Item: an impl block, a struct, or another item.
ItemImpl(trait_, self_ty, generics, items) ==
    [kind |-> "Impl", trait_ |-> trait_, self_ty |-> self_ty, generics |-> generics,
     items |-> items]
FieldsNamed(named) == [kind |-> "Named", named |-> named]
FieldsUnnamed(unnamed) == [kind |-> "Unnamed", unnamed |-> unnamed]
ItemStruct(ident, generics, fields) ==
    [kind |-> "Struct", ident |-> ident, generics |-> generics, fields |-> fields]
NamedField(ident, ty) == [ident |-> ident, colon_token |-> ":", ty |-> ty]

\* Mutant: the cell holds the rewritten return type, the reference.
OnceCellField_RefType(ident, return_ty) ==
    <<ident, ":", "::", "core", "::", "cell", "::", "OnceCell", "<", "&">> \o return_ty \o <<">">>
\* rewrite_cached_method, lines 155-157: the field emitted for a method.
OnceCellField(ident, return_ty) ==
    <<ident, ":", "::", "core", "::", "cell", "::", "OnceCell", "<">> \o return_ty \o <<">">>

\* rewrite_cached_method, lines 148-153: the new body of the method.
GetOrInitBlock(ident, block) ==
    <<"{", "self", ".", "__cache_fields__", ".", ident, ".", "get_or_init", "(", "|", "|", "{">>
    \o block \o <<"}", ")", "}">>

\* Mutant: an item that is not a method gets a cache field too, under the name K.
rewrite_cached_method_SlotForAll(item) ==
    IF item.kind # "Fn" THEN Ok([item |-> item, field |-> Some(OnceCellField("K", <<"u64">>))])
    ELSE IF item.output.tag # "Some" THEN Err("MissingReturnType", item.ident)
    ELSE Ok([item |-> ImplItemFn(item.ident, Some(<<"&">> \o item.output.val),
                                 GetOrInitBlock(item.ident, item.block)),
             field |-> Some(OnceCellField(item.ident, item.output.val))])
\* rewrite_cached_method, lines 133-159.
rewrite_cached_method(item) ==
    IF item.kind # "Fn" THEN Ok([item |-> item, field |-> None])
    ELSE IF item.output.tag # "Some" THEN Err("MissingReturnType", item.ident)
    ELSE Ok([item |-> ImplItemFn(item.ident, Some(<<"&">> \o item.output.val),
                                 GetOrInitBlock(item.ident, item.block)),
             field |-> Some(OnceCellField(item.ident, item.output.val))])

\* impl_cached_method_aux, lines 116-122: collect::<syn::Result<Vec<_>>>() stops
\* at the first item whose rewriting fails and returns its error.
RECURSIVE CollectRewritten(_)
CollectRewritten(items) ==
    IF items = <<>> THEN Ok(<<>>)
    ELSE LET r == rewrite_cached_method(Head(items))
         IN IF ~r.ok THEN r
            ELSE LET rest == CollectRewritten(Tail(items))
                 IN IF ~rest.ok THEN rest ELSE Ok(<<r.val>> \o rest.val)

\* impl_cached_method_aux, line 125: fields.into_iter().flatten().
RECURSIVE FlattenFields(_)
FlattenFields(rs) ==
    IF rs = <<>> THEN <<>>
    ELSE (IF Head(rs).field.tag = "Some" THEN <<Head(rs).field.val>> ELSE <<>>)
         \o FlattenFields(Tail(rs))

\* Mutant: the methods are rewritten before the block is checked for a trait.
impl_cached_method_aux_MethodsFirst(map, args, input) ==
    IF args # <<>> THEN [res |-> Err("UnexpectedArguments", args), map |-> map]
    ELSE IF input.kind # "Impl" THEN [res |-> Err("ExpectedImpl", <<>>), map |-> map]
    ELSE LET rs == CollectRewritten(input.items)
         IN IF ~rs.ok THEN [res |-> rs, map |-> map]
            ELSE IF input.trait_.tag = "Some"
                 THEN [res |-> Err("UnsupportedImplKind", input.trait_.val), map |-> map]
            ELSE LET items == [i \in 1..Len(rs.val) |-> rs.val[i].item]
                     impl_ == [input EXCEPT !.items = items]
                     reg == register_cache_fields(map, impl_.self_ty, impl_.generics,
                                                  FlattenFields(rs.val))
                 IN IF ~reg.res.ok THEN reg ELSE [res |-> Ok(impl_), map |-> reg.map]
\* impl_cached_method_aux, lines 95-131: the result and the storage afterwards.
impl_cached_method_aux(map, args, input) ==
    IF args # <<>> THEN [res |-> Err("UnexpectedArguments", args), map |-> map]
    ELSE IF input.kind # "Impl" THEN [res |-> Err("ExpectedImpl", <<>>), map |-> map]
    ELSE IF input.trait_.tag = "Some"
         THEN [res |-> Err("UnsupportedImplKind", input.trait_.val), map |-> map]
    ELSE LET rs == CollectRewritten(input.items)
         IN IF ~rs.ok THEN [res |-> rs, map |-> map]
            ELSE LET items == [i \in 1..Len(rs.val) |-> rs.val[i].item]
                     impl_ == [input EXCEPT !.items = items]
                     reg == register_cache_fields(map, impl_.self_ty, impl_.generics,
                                                  FlattenFields(rs.val))
                 IN IF ~reg.res.ok THEN reg ELSE [res |-> Ok(impl_), map |-> reg.map]

\* What a macro returns to the compiler: the items emitted and the compile error.
Expansion(diagnostic, items) == [diagnostic |-> diagnostic, items |-> items]

\* impl_cached_method, lines 83-93.
impl_cached_method(map, args, input) ==
    LET r == impl_cached_method_aux(map, args, input)
    IN [out |-> IF r.res.ok THEN Expansion(None, <<r.res.val>>)
                ELSE Expansion(Some(r.res), <<input>>),
        map |-> r.map]

\* add_cache_field_aux, lines 193-199: format!("__struct_cache_field__{}CacheFields", ident).
CompanionName(ident) ==
    CASE ident = "Hoge" -> "__struct_cache_field__HogeCacheFields"
      [] ident = "Fuga" -> "__struct_cache_field__FugaCacheFields"
      [] OTHER -> "__struct_cache_field__CacheFields"

\* add_cache_field_aux, line 219: format!("_phantom{i}").
PhantomIdent(i) ==
    CASE i = 0 -> "_phantom0" [] i = 1 -> "_phantom1" [] i = 2 -> "_phantom2"
      [] OTHER -> "_phantomN"

\* Mutant: the lifetime and const parameters are kept and the type parameters dropped.
FilterParams_Complement(params) ==
    LET Dropped(param) == param.kind # "Type" IN SelectSeq(params, Dropped)
\* add_cache_field_aux, lines 205-213: only the type parameters are kept.
IsTypeParam(param) == param.kind = "Type"
FilterParams(params) == SelectSeq(params, IsTypeParam)

\* add_cache_field_aux, lines 214-224: one phantom field per parameter kept.
PhantomFields(params) ==
    [i \in 1..Len(params) |->
        NamedField(PhantomIdent(i - 1),
                   <<"::", "core", "::", "marker", "::", "PhantomData", "<">>
                   \o params[i].tokens \o <<">">>)]

\* add_cache_field_aux, line 225: the TypeGenerics of split_for_impl, `< T , S >`.
RECURSIVE ParamIdents(_)
ParamIdents(ps) ==
    IF ps = <<>> THEN <<>>
    ELSE <<Head(ps).ident>> \o (IF Len(ps) > 1 THEN <<",">> ELSE <<>>) \o ParamIdents(Tail(ps))
TyGenerics(params) == IF params = <<>> THEN <<>> ELSE <<"<">> \o ParamIdents(params) \o <<">">>

\* add_cache_field_aux, lines 226-232: the struct holding the caches.
CacheFieldsStruct(name, params, where_clause, cache_fields) ==
    [kind |-> "Struct", attrs |-> <<"derive", "Default">>, ident |-> name,
     ty_generics |-> TyGenerics(params), where_clause |-> where_clause,
     fields |-> FieldsNamed(cache_fields \o PhantomFields(params))]

\* Mutant: the field of the caches is put before the fields written.
add_cache_field_aux_Prepend(map, args, input) ==
    IF args # <<>> THEN [res |-> Err("UnexpectedArguments", args), map |-> map]
    ELSE IF input.kind # "Struct" THEN [res |-> Err("ExpectedStruct", <<>>), map |-> map]
    ELSE IF input.fields.kind # "Named" THEN [res |-> Err("UnnamedFields", <<>>), map |-> map]
    ELSE LET name == CompanionName(input.ident)
             w == withdraw_cache_fields(map, input.ident, input.generics)
         IN IF ~w.res.ok THEN w
            ELSE LET params == FilterParams(input.generics.params)
                     embedding == NamedField("__cache_fields__", <<name>> \o TyGenerics(params))
                     struct_ == [input EXCEPT !.fields =
                                    FieldsNamed(<<embedding>> \o input.fields.named)]
                 IN [res |-> Ok(<<struct_,
                                  CacheFieldsStruct(name, params, input.generics.where_clause,
                                                    w.res.val)>>),
                     map |-> w.map]
\* Mutant: the entry is withdrawn before the fields are checked to be named.
add_cache_field_aux_WithdrawFirst(map, args, input) ==
    IF args # <<>> THEN [res |-> Err("UnexpectedArguments", args), map |-> map]
    ELSE IF input.kind # "Struct" THEN [res |-> Err("ExpectedStruct", <<>>), map |-> map]
    ELSE LET name == CompanionName(input.ident)
             w == withdraw_cache_fields(map, input.ident, input.generics)
         IN IF input.fields.kind # "Named"
            THEN [res |-> Err("UnnamedFields", <<>>), map |-> w.map]
            ELSE IF ~w.res.ok THEN w
            ELSE LET params == FilterParams(input.generics.params)
                     embedding == NamedField("__cache_fields__", <<name>> \o TyGenerics(params))
                     struct_ == [input EXCEPT !.fields =
                                    FieldsNamed(Append(input.fields.named, embedding))]
                 IN [res |-> Ok(<<struct_,
                                  CacheFieldsStruct(name, params, input.generics.where_clause,
                                                    w.res.val)>>),
                     map |-> w.map]
\* add_cache_field_aux, lines 174-248: the result and the storage afterwards.
add_cache_field_aux(map, args, input) ==
    IF args # <<>> THEN [res |-> Err("UnexpectedArguments", args), map |-> map]
    ELSE IF input.kind # "Struct" THEN [res |-> Err("ExpectedStruct", <<>>), map |-> map]
    ELSE IF input.fields.kind # "Named" THEN [res |-> Err("UnnamedFields", <<>>), map |-> map]
    ELSE LET name == CompanionName(input.ident)
             w == withdraw_cache_fields(map, input.ident, input.generics)
         IN IF ~w.res.ok THEN w
            ELSE LET params == FilterParams(input.generics.params)
                     embedding == NamedField("__cache_fields__", <<name>> \o TyGenerics(params))
                     struct_ == [input EXCEPT !.fields =
                                    FieldsNamed(Append(input.fields.named, embedding))]
                 IN [res |-> Ok(<<struct_,
                                  CacheFieldsStruct(name, params, input.generics.where_clause,
                                                    w.res.val)>>),
                     map |-> w.map]

\* Mutant: on an error only the compile error is emitted.
add_cache_field_DropInput(map, args, input) ==
    LET r == add_cache_field_aux(map, args, input)
    IN [out |-> IF r.res.ok THEN Expansion(None, r.res.val)
                ELSE Expansion(Some(r.res), <<>>),
        map |-> r.map]
\* add_cache_field, lines 161-172.
add_cache_field(map, args, input) ==
    LET r == add_cache_field_aux(map, args, input)
    IN [out |-> IF r.res.ok THEN Expansion(None, r.res.val)
                ELSE Expansion(Some(r.res), <<input>>),
        map |-> r.map]

\* ------------------------------------------------------------ generated methods
\* The methods of the annotated blocks of the crate doc example (lines 10-20) and of
\* tests/ui/pass_recursive_call.rs, on an object with the fields x and y.
Methods == {"two_times_x", "x_plus_1", "two_times_x_plus_y"}

\* Hoge { x, y, __cache_fields__: Default::default() }
NewHoge(x, y) == [x |-> x, y |-> y, __cache_fields__ |-> [m \in Methods |-> None]]

\* The result of evaluating a block on an object: its value, the object afterwards,
\* the methods whose original blocks ran on the way, and the calls of generated
\* methods made on the way, each with what it returned.
Evaluated(val, o, ran, calls) == [val |-> val, obj |-> o, ran |-> ran, calls |-> calls]
Returns(ident, val) == [method |-> ident, val |-> val]

\* Mutant: the closure's value is returned and never stored.
get_or_init_NoStore(o, ident, body) ==
    Evaluated(body.val, body.obj, body.ran \cup {ident}, body.calls \cup {Returns(ident, body.val)})
\* Mutant: the closure is run on every call and its value stored again.
get_or_init_Always(o, ident, body) ==
    Evaluated(body.val, [body.obj EXCEPT !.__cache_fields__[ident] = Some(body.val)],
              body.ran \cup {ident}, body.calls \cup {Returns(ident, body.val)})
\* rewrite_cached_method, lines 148-153: self.__cache_fields__.#ident.get_or_init(|| #block),
\* where body is what #block evaluates to on o: the stored value if there is one,
\* else the block's value, which is stored.
get_or_init(o, ident, body) ==
    IF o.__cache_fields__[ident].tag = "Some"
    THEN Evaluated(o.__cache_fields__[ident].val, o, {},
                   {Returns(ident, o.__cache_fields__[ident].val)})
    ELSE Evaluated(body.val, [body.obj EXCEPT !.__cache_fields__[ident] = Some(body.val)],
                   body.ran \cup {ident}, body.calls \cup {Returns(ident, body.val)})

\* { 2 * self.x }
two_times_x_block(o) == Evaluated(2 * o.x, o, {}, {})
two_times_x(o) == get_or_init(o, "two_times_x", two_times_x_block(o))

\* { self.x = self.x + 1; self.x }
x_plus_1_block(o) == Evaluated(o.x + 1, [o EXCEPT !.x = o.x + 1], {}, {})
x_plus_1(o) == get_or_init(o, "x_plus_1", x_plus_1_block(o))

\* Mutant: the outer block evaluates the inner method's original block itself.
two_times_x_plus_y_block_Inline(o) ==
    LET inner == two_times_x_block(o)
    IN Evaluated(inner.val + inner.obj.y, inner.obj, inner.ran, inner.calls)
\* { self.two_times_x() + self.y }, with the generated two_times_x
two_times_x_plus_y_block(o) ==
    LET inner == two_times_x(o)
    IN Evaluated(inner.val + inner.obj.y, inner.obj, inner.ran, inner.calls)
two_times_x_plus_y(o) == get_or_init(o, "two_times_x_plus_y", two_times_x_plus_y_block(o))

CallGenerated(m, o) ==
    CASE m = "two_times_x" -> two_times_x(o)
      [] m = "x_plus_1" -> x_plus_1(o)
      [] m = "two_times_x_plus_y" -> two_times_x_plus_y(o)
\* The original block of method m.
OriginalBlock(m, o) ==
    CASE m = "two_times_x" -> two_times_x_block(o)
      [] m = "x_plus_1" -> x_plus_1_block(o)
      [] m = "two_times_x_plus_y" -> two_times_x_plus_y_block(o)

\* ------------------------------------------------------------ inputs
TypeParam(name) == [kind |-> "Type", ident |-> name, tokens |-> <<name>>]
LifetimeParam(name) == [kind |-> "Lifetime", ident |-> name, tokens |-> <<name>>]
ConstParam(name, ty) == [kind |-> "Const", ident |-> name, tokens |-> <<"const", name, ":", ty>>]

WhereToStringFrom == Some(<<"where", "T", ":", "ToString", "+", "From", "<", "String", ">">>)
WhereToString == Some(<<"where", "T", ":", "ToString">>)

GenericsNone == Generics(<<>>, None)
GenericsT == Generics(<<TypeParam("T")>>, None)
GenericsTWhere == Generics(<<TypeParam("T")>>, WhereToStringFrom)
GenericsTWhereShort == Generics(<<TypeParam("T")>>, WhereToString)
GenericsS == Generics(<<TypeParam("S")>>, WhereToStringFrom)
GenericsTS == Generics(<<TypeParam("T"), TypeParam("S")>>, WhereToStringFrom)
GenericsComplex ==
    Generics(<<LifetimeParam("'a"), TypeParam("T"), ConstParam("N", "usize")>>, WhereToStringFrom)

FieldTwoTimesX == OnceCellField("two_times_x", <<"u64">>)
FieldXPlus1 == OnceCellField("x_plus_1", <<"u64">>)
FieldTwoTimesT == OnceCellField("two_times_t", <<"T">>)

TyHoge == TypePath(<<Seg("Hoge", <<>>)>>)
TyHogeT == TypePath(<<Seg("Hoge", <<"<", "T", ">">>)>>)
TyRefHoge == TypeOther(<<"&", "Hoge">>)
TyHogeTS == TypePath(<<Seg("Hoge", <<"<", "T", ",", "S", ">">>)>>)
TyHogeComplex == TypePath(<<Seg("Hoge", <<"<", "'a", ",", "T", ",", "N", ">">>)>>)
TyFuga == TypePath(<<Seg("Fuga", <<>>)>>)
TyModule1Hoge == TypePath(<<Seg("module1", <<>>), Seg("Hoge", <<>>)>>)

\* Methods and items of the annotated blocks (crate doc example and tests/ui).
MethodTwoTimesX == ImplItemFn("two_times_x", Some(<<"u64">>), <<"2", "*", "self", ".", "x">>)
MethodTwoTimesXAgain == ImplItemFn("two_times_x", Some(<<"u64">>), <<"self", ".", "x", "*", "2">>)
MethodXPlus1 == ImplItemFn("x_plus_1", Some(<<"u64">>), <<"self", ".", "x", "+=", "1", ";", "self", ".", "x">>)
MethodThreeTimesY == ImplItemFn("three_times_y", Some(<<"u64">>), <<"2", "*", "self", ".", "y">>)
MethodTwoTimesT == ImplItemFn("two_times_t", Some(<<"T">>), <<"self", ".", "t", ".", "into", "(", ")">>)
MethodNTimesT ==
    ImplItemFn("n_times_t", Some(<<"T">>),
               <<"self", ".", "t", ".", "to_string", "(", ")", ".", "repeat", "(", "N", ")",
                 ".", "into", "(", ")">>)
MethodNoReturn == ImplItemFn("touch", None, <<"self", ".", "x", ";">>)
ConstItem == ImplItemOther(<<"const", "K", ":", "u64", "=", "1", ";">>)

ImplHoge == ItemImpl(None, TyHoge, GenericsNone, <<MethodTwoTimesX>>)
ImplHogeDoc == ItemImpl(None, TyHoge, GenericsNone, <<MethodTwoTimesX, MethodXPlus1>>)
ImplHoge2 == ItemImpl(None, TyHoge, GenericsNone, <<MethodThreeTimesY>>)
ImplHogeT == ItemImpl(None, TyHogeT, GenericsTWhere, <<MethodTwoTimesT>>)
ImplHogeTS == ItemImpl(None, TyHogeTS, GenericsTS, <<MethodTwoTimesT>>)
ImplHogeComplex == ItemImpl(None, TyHogeComplex, GenericsComplex, <<MethodNTimesT>>)
ImplHogeTwice == ItemImpl(None, TyHoge, GenericsNone, <<MethodTwoTimesX, MethodTwoTimesXAgain>>)
ImplHogeConst == ItemImpl(None, TyHoge, GenericsNone, <<ConstItem, MethodTwoTimesX>>)
ImplHogeNoRet == ItemImpl(None, TyHoge, GenericsNone, <<MethodTwoTimesX, MethodNoReturn>>)
ImplFugaNoRet == ItemImpl(None, TyFuga, GenericsNone, <<MethodNoReturn, MethodTwoTimesX>>)
ImplTrait == ItemImpl(Some(<<"Debug", "for">>), TyHoge, GenericsNone, <<MethodNoReturn>>)
ImplFuga == ItemImpl(None, TyFuga, GenericsNone, <<MethodTwoTimesX>>)
ImplModule1Hoge == ItemImpl(None, TyModule1Hoge, GenericsNone, <<MethodTwoTimesX>>)
ImplRefHoge == ItemImpl(None, TyRefHoge, GenericsNone, <<MethodTwoTimesX>>)

FieldX == NamedField("x", <<"u64">>)
FieldY == NamedField("y", <<"u64">>)
FieldT == NamedField("t", <<"T">>)
FieldS == NamedField("s", <<"S">>)
FieldRefT == NamedField("t", <<"&", "'a", "T">>)

StructHoge == ItemStruct("Hoge", GenericsNone, FieldsNamed(<<FieldX>>))
StructHoge2 == ItemStruct("Hoge", GenericsNone, FieldsNamed(<<FieldY>>))
StructHogeT == ItemStruct("Hoge", GenericsTWhere, FieldsNamed(<<FieldX, FieldT>>))
StructHogeTShort == ItemStruct("Hoge", GenericsTWhereShort, FieldsNamed(<<FieldX, FieldT>>))
StructHogeTNoWhere == ItemStruct("Hoge", GenericsT, FieldsNamed(<<FieldX, FieldT>>))
StructHogeTS == ItemStruct("Hoge", GenericsTS, FieldsNamed(<<FieldX, FieldT, FieldS>>))
StructHogeComplex == ItemStruct("Hoge", GenericsComplex, FieldsNamed(<<FieldX, FieldRefT>>))
StructHogeS == ItemStruct("Hoge", GenericsS, FieldsNamed(<<FieldX>>))
StructHogeTuple == ItemStruct("Hoge", GenericsNone, FieldsUnnamed(<<<<"u64">>>>))
StructFuga == ItemStruct("Fuga", GenericsNone, FieldsNamed(<<FieldX>>))

\* The annotation arguments: none, or some tokens.
MacroArgs == { <<>>, <<"foo">> }
\* The items #[impl_cached_method] is applied to.
ImplInputs ==
    { ImplHoge, ImplHogeDoc, ImplHoge2, ImplHogeT, ImplHogeTS, ImplHogeComplex, ImplHogeTwice,
      ImplHogeConst, ImplHogeNoRet, ImplFugaNoRet,
      ImplTrait, ImplFuga, ImplModule1Hoge, ImplRefHoge, StructHoge }
\* The items #[add_cache_field] is applied to.
StructInputs ==
    { StructHoge, StructHoge2, StructHogeT, StructHogeTShort, StructHogeTNoWhere, StructHogeS,
      StructHogeTS, StructHogeComplex,
      StructHogeTuple, StructFuga, ImplHoge }

\* The calls of the two storage functions that the callers of Spec make.
RegisterInputs ==
    { [ty |-> TyHoge, generics |-> GenericsNone, cache_fields |-> <<FieldTwoTimesX>>],
      [ty |-> TyHoge, generics |-> GenericsNone, cache_fields |-> <<FieldTwoTimesX, FieldXPlus1>>],
      [ty |-> TyHogeT, generics |-> GenericsTWhere, cache_fields |-> <<FieldTwoTimesT>>],
      [ty |-> TyRefHoge, generics |-> GenericsNone, cache_fields |-> <<>>] }
WithdrawInputs ==
    { [ident |-> "Hoge", generics |-> GenericsNone],
      [ident |-> "Hoge", generics |-> GenericsTWhere],
      [ident |-> "Hoge", generics |-> GenericsTWhereShort],
      [ident |-> "Hoge", generics |-> GenericsT],
      [ident |-> "Hoge", generics |-> GenericsS] }

StorageKeys == { RegisterKey(i.ty) : i \in { j \in RegisterInputs : j.ty.kind = "Path" } }
                \cup { WithdrawKey(i.ident) : i \in WithdrawInputs }

\* ------------------------------------------------------------ concurrent callers
Procs == 1..NumProcs
NoCall == [op |-> "none"]
NoMacro == [macro |-> "none"]
NoReturn == [method |-> "none", val |-> 0, fresh |-> 0, calls |-> {}]
NoBuild == [crate |-> <<>>, expanded |-> <<>>, outs |-> <<>>]

Init ==
    /\ STORAGE = <<>>
    /\ lock = 0
    /\ pc = [p \in Procs |-> "idle"]
    /\ call = [p \in Procs |-> NoCall]
    /\ result = [p \in Procs |-> NoResult]
    /\ inserted = [k \in StorageKeys |-> 0]
    /\ live = [k \in StorageKeys |-> <<>>]
    /\ nWithdrawn = [k \in StorageKeys |-> 0]
    /\ ncalls = 0
    /\ last = NoMacro
    /\ build = NoBuild
    /\ obj = NewHoge(1, 10)
    /\ ret = NoReturn
    /\ first = [m \in Methods |-> None]
    /\ ncall = [m \in Methods |-> 0]
    /\ evals = [m \in Methods |-> 0]

\* register_cache_fields, lines 22-51: the type must be a path; key and value.
RegisterCall(p, in) ==
    /\ pc[p] = "idle"
    /\ ncalls < MaxCalls
    /\ ncalls' = ncalls + 1
    /\ IF in.ty.kind # "Path"
       THEN /\ result' = [result EXCEPT ![p] = Err("ExpectedTypePath", <<>>)]
            /\ call' = [call EXCEPT ![p] = [op |-> "register", in |-> in]]
            /\ pc' = pc
       ELSE /\ result' = [result EXCEPT ![p] = NoResult]
            /\ call' = [call EXCEPT ![p] = [op |-> "register", in |-> in,
                                            key |-> RegisterKey(in.ty),
                                            value |-> RegisterValue(in.generics, in.cache_fields)]]
            /\ pc' = [pc EXCEPT ![p] = "r53_lock"]
    /\ UNCHANGED <<STORAGE, lock, inserted, live, nWithdrawn, last, build, runtime>>

\* line 53: STORAGE.lock() of the condition.
RegisterLockContains(p) ==
    /\ pc[p] = "r53_lock"
    /\ lock = 0
    /\ lock' = p
    /\ pc' = [pc EXCEPT ![p] = "r53_contains"]
    /\ UNCHANGED <<STORAGE, call, result, inserted, live, nWithdrawn, ncalls, last, build, runtime>>

\* Mutant: the guard of the condition lives on when the key is absent.
RegisterContains_KeepGuard(p) ==
    /\ pc[p] = "r53_contains"
    /\ IF contains_key(STORAGE, call[p].key)
       THEN /\ result' = [result EXCEPT ![p] = Err("DuplicateRegistration", <<>>)]
            /\ pc' = [pc EXCEPT ![p] = "idle"]
            /\ lock' = 0
       ELSE /\ result' = result
            /\ pc' = [pc EXCEPT ![p] = "r60_lock"]
            /\ lock' = lock
    /\ UNCHANGED <<STORAGE, call, inserted, live, nWithdrawn, ncalls, last, build, runtime>>

\* lines 53-58: contains_key under the guard of the condition, which is dropped
\* when the condition has been evaluated.
RegisterContains(p) ==
    /\ pc[p] = "r53_contains"
    /\ lock' = 0
    /\ IF contains_key(STORAGE, call[p].key)
       THEN /\ result' = [result EXCEPT ![p] = Err("DuplicateRegistration", <<>>)]
            /\ pc' = [pc EXCEPT ![p] = "idle"]
       ELSE /\ result' = result
            /\ pc' = [pc EXCEPT ![p] = "r60_lock"]
    /\ UNCHANGED <<STORAGE, call, inserted, live, nWithdrawn, ncalls, last, build, runtime>>

\* line 60: the second STORAGE.lock().
RegisterLockInsert(p) ==
    /\ pc[p] = "r60_lock"
    /\ lock = 0
    /\ lock' = p
    /\ pc' = [pc EXCEPT ![p] = "r60_insert"]
    /\ UNCHANGED <<STORAGE, call, result, inserted, live, nWithdrawn, ncalls, last, build, runtime>>

\* lines 60-62: insert, drop the guard, Ok(()).
RegisterInsert(p) ==
    /\ pc[p] = "r60_insert"
    /\ STORAGE' = insert(STORAGE, call[p].key, call[p].value)
    /\ lock' = 0
    /\ result' = [result EXCEPT ![p] = Ok(<<>>)]
    /\ pc' = [pc EXCEPT ![p] = "idle"]
    /\ inserted' = [inserted EXCEPT ![call[p].key] = @ + 1]
    /\ live' = [live EXCEPT ![call[p].key] = Append(@, call[p])]
    /\ UNCHANGED <<call, nWithdrawn, ncalls, last, build, runtime>>

\* withdraw_cache_fields, lines 65-69.
WithdrawCall(p, in) ==
    /\ pc[p] = "idle"
    /\ ncalls < MaxCalls
    /\ ncalls' = ncalls + 1
    /\ result' = [result EXCEPT ![p] = NoResult]
    /\ call' = [call EXCEPT ![p] = [op |-> "withdraw", in |-> in, key |-> WithdrawKey(in.ident)]]
    /\ pc' = [pc EXCEPT ![p] = "w70_lock"]
    /\ UNCHANGED <<STORAGE, lock, inserted, live, nWithdrawn, last, build, runtime>>

\* line 70: STORAGE.lock(), the guard lives to the end of the function.
WithdrawLock(p) ==
    /\ pc[p] = "w70_lock"
    /\ lock = 0
    /\ lock' = p
    /\ pc' = [pc EXCEPT ![p] = "w71_remove"]
    /\ UNCHANGED <<STORAGE, call, result, inserted, live, nWithdrawn, ncalls, last, build, runtime>>

\* lines 71-111: remove, compare, parse the fields, return (the guard is dropped).
WithdrawRemove(p) ==
    LET key == call[p].key
        w == withdraw_cache_fields(STORAGE, call[p].in.ident, call[p].in.generics)
    IN /\ pc[p] = "w71_remove"
       /\ STORAGE' = w.map
       /\ lock' = 0
       /\ result' = [result EXCEPT ![p] = w.res]
       /\ pc' = [pc EXCEPT ![p] = "idle"]
       /\ live' = [live EXCEPT ![key] = IF contains_key(w.map, key) THEN @ ELSE <<>>]
       /\ nWithdrawn' = [nWithdrawn EXCEPT ![key] = IF w.res.ok THEN @ + 1 ELSE @]
       /\ UNCHANGED <<call, inserted, ncalls, last, build, runtime>>

Next ==
    \E p \in Procs :
        \/ \E in \in RegisterInputs : RegisterCall(p, in)
        \/ RegisterLockContains(p)
        \/ RegisterContains(p)
        \/ RegisterLockInsert(p)
        \/ RegisterInsert(p)
        \/ \E in \in WithdrawInputs : WithdrawCall(p, in)
        \/ WithdrawLock(p)
        \/ WithdrawRemove(p)

Spec == Init /\ [][Next]_vars

\* ------------------------------------------------------------ claims on the storage
\* Caller p returns from withdraw_cache_fields in this step.
WithdrawReturns(p) == pc[p] = "w71_remove" /\ pc'[p] = "idle"
\* Caller p is back from a call of the given function.
Returned(p, op) == pc[p] = "idle" /\ call[p].op = op /\ result[p] # NoResult
\* Two signatures with the same parameter list and the same where-clause, as written.
SameSignature(g1, g2) ==
    GenericsTokens(g1) = GenericsTokens(g2) /\ g1.where_clause = g2.where_clause
\* The registration whose entry is stored under key k.
Stored(k) == live[k][Len(live[k])]
TokensOfFields(fields) == [i \in 1..Len(fields) |-> FieldTokens(fields[i])]

\* C1: of the register calls for one key that run against an absent key exactly
\* one succeeds: since the key was last absent at most one registration has
\* returned Ok, and the entry stored is that registration's.
C1_OneRegistrationWins ==
    \A k \in StorageKeys :
        /\ Len(live[k]) <= 1
        /\ Len(live[k]) = 1 => contains_key(STORAGE, k) /\ STORAGE[k] = live[k][1].value

\* C2: an entry is withdrawn at most once: per key, the withdrawals that returned
\* Ok, plus the entry still stored, never exceed the inserts executed.
C2_WithdrawnAtMostOnce ==
    \A k \in StorageKeys :
        nWithdrawn[k] + (IF contains_key(STORAGE, k) THEN 1 ELSE 0) <= inserted[k]

\* C2 witness: after one insert, two withdrawals for the key have returned, one
\* with Ok and the other with EntryMissing.
C2_Witness ==
    \E p \in Procs, q \in Procs :
        /\ p # q
        /\ Returned(p, "withdraw") /\ Returned(q, "withdraw")
        /\ call[p].key = call[q].key
        /\ inserted[call[p].key] = 1
        /\ result[p].ok
        /\ ~result[q].ok /\ result[q].kind = "EntryMissing"

\* C4: a withdrawal that finds the entry of a registration and presents the same
\* signature returns Ok with exactly the registered fields, in order, and removes
\* the entry.
C4_WithdrawReturnsInserted ==
    [][\A p \in Procs :
          (/\ WithdrawReturns(p)
           /\ contains_key(STORAGE, call[p].key)
           /\ SameSignature(call[p].in.generics, Stored(call[p].key).in.generics))
          => /\ result'[p].ok
             /\ TokensOfFields(result'[p].val) = Stored(call[p].key).in.cache_fields
             /\ ~contains_key(STORAGE', call[p].key)]_vars

\* C4 witness: a withdrawal has returned two fields.
C4_Witness ==
    \E p \in Procs : Returned(p, "withdraw") /\ result[p].ok /\ Len(result[p].val) = 2

\* C5: a withdrawal for a key without entry fails with EntryMissing and leaves the
\* storage as it is; a withdrawal that returns Ok leaves no entry for a second one.
C5_MissingEntryIsAnError ==
    [][\A p \in Procs :
          WithdrawReturns(p)
          => /\ ~contains_key(STORAGE, call[p].key)
                => /\ ~result'[p].ok
                   /\ result'[p].kind = "EntryMissing"
                   /\ STORAGE' = STORAGE
             /\ result'[p].ok => ~contains_key(STORAGE', call[p].key)]_vars

\* C5 witness: after an insert and a withdrawal that returned Ok, another
\* withdrawal for the key has failed with EntryMissing.
C5_Witness ==
    \E p \in Procs :
        /\ Returned(p, "withdraw")
        /\ ~result[p].ok /\ result[p].kind = "EntryMissing"
        /\ nWithdrawn[call[p].key] = 1

\* C6: a withdrawal that finds an entry returns Ok exactly when the signature it
\* presents equals the registered one in the parameter list and in the where-clause;
\* otherwise it fails with GenericsMismatch, and the error carries both signatures.
C6_MismatchIffSignaturesDiffer ==
    [][\A p \in Procs :
          (WithdrawReturns(p) /\ contains_key(STORAGE, call[p].key))
          => LET reg == Stored(call[p].key).in.generics
                 g == call[p].in.generics
             IN IF SameSignature(g, reg) THEN result'[p].ok
                ELSE /\ ~result'[p].ok
                     /\ result'[p].kind = "GenericsMismatch"
                     /\ result'[p].payload =
                            <<to_string(GenericsTokens(reg)),
                              IF reg.where_clause = None THEN <<>>
                              ELSE to_string(reg.where_clause.val),
                              to_string(GenericsTokens(g)),
                              IF g.where_clause = None THEN <<>>
                              ELSE to_string(g.where_clause.val)>>]_vars

\* C6 witness: a withdrawal has failed with GenericsMismatch on signatures with the
\* same parameter list, one with a where-clause and one without.
C6_Witness ==
    \E p \in Procs :
        /\ Returned(p, "withdraw")
        /\ ~result[p].ok /\ result[p].kind = "GenericsMismatch"
        /\ result[p].payload[1] = result[p].payload[3]
        /\ result[p].payload[2] # <<>>
        /\ result[p].payload[4] = <<>>

\* C7: a withdrawal that fails with GenericsMismatch has removed the entry: on the
\* storage it leaves, every withdrawal for the key fails with EntryMissing and
\* every registration for the key succeeds.
C7_MismatchConsumes ==
    [][\A p \in Procs :
          (WithdrawReturns(p) /\ ~result'[p].ok /\ result'[p].kind = "GenericsMismatch")
          => /\ ~contains_key(STORAGE', call[p].key)
             /\ \A w \in WithdrawInputs :
                   WithdrawKey(w.ident) = call[p].key
                   => withdraw_cache_fields(STORAGE', w.ident, w.generics).res
                        = Err("EntryMissing", <<>>)
             /\ \A r \in RegisterInputs :
                   (r.ty.kind = "Path" /\ RegisterKey(r.ty) = call[p].key)
                   => register_cache_fields(STORAGE', r.ty, r.generics, r.cache_fields).res.ok]_vars

\* C7 witness: a withdrawal has failed with GenericsMismatch and the key is absent.
C7_Witness ==
    \E p \in Procs :
        /\ Returned(p, "withdraw")
        /\ ~result[p].ok /\ result[p].kind = "GenericsMismatch"
        /\ ~contains_key(STORAGE, call[p].key)
        /\ inserted[call[p].key] = 1

\* C8: a key maps to at most one entry, the one of the first registration that
\* succeeded since the key was last removed.
C8_FirstRegistrationKept ==
    \A k \in StorageKeys :
        contains_key(STORAGE, k) => Len(live[k]) >= 1 /\ STORAGE[k] = live[k][1].value

\* ------------------------------------------------------------ macro applications
\* The compiler applies the two attribute macros one at a time.
InitMacro == Init

\* #[impl_cached_method(args)] applied to an item.
ImplCachedMethod(args, input) ==
    LET r == impl_cached_method(STORAGE, args, input)
    IN /\ STORAGE' = r.map
       /\ last' = [macro |-> "impl_cached_method", args |-> args, input |-> input,
                   out |-> r.out]
       /\ UNCHANGED <<callers, build, runtime>>

\* #[add_cache_field(args)] applied to an item.
AddCacheField(args, input) ==
    LET r == add_cache_field(STORAGE, args, input)
    IN /\ STORAGE' = r.map
       /\ last' = [macro |-> "add_cache_field", args |-> args, input |-> input,
                   out |-> r.out]
       /\ UNCHANGED <<callers, build, runtime>>

NextMacro ==
    \E args \in MacroArgs :
        \/ \E input \in ImplInputs : ImplCachedMethod(args, input)
        \/ \E input \in StructInputs : AddCacheField(args, input)

SpecMacro == InitMacro /\ [][NextMacro]_vars

\* ------------------------------------------------------------ claims on the macros
\* The last macro application failed with an error of the given kind.
FailedWith(m, kind) == m.out.diagnostic # None /\ m.out.diagnostic.val.kind = kind
\* The key of the block an application of impl_cached_method is about, if it has one.
HasOwningKey(input) == input.kind = "Impl" /\ input.self_ty.kind = "Path"
OwningKey(input) == RegisterKey(input.self_ty)

\* C9: an application of impl_cached_method that succeeds adds the entry of the
\* owning type's key and changes no other key; one that fails leaves the storage as
\* it was, so that a withdrawal for its key, if unregistered before, fails with
\* EntryMissing.
C9_RegistryMutatedOnlyOnSuccess ==
    [][last'.macro = "impl_cached_method"
       => IF last'.out.diagnostic = None
          THEN LET key == OwningKey(last'.input)
               IN /\ ~contains_key(STORAGE, key)
                  /\ DOMAIN STORAGE' = (DOMAIN STORAGE) \cup {key}
                  /\ \A k \in DOMAIN STORAGE : STORAGE'[k] = STORAGE[k]
          ELSE /\ STORAGE' = STORAGE
               /\ (HasOwningKey(last'.input) /\ ~contains_key(STORAGE, OwningKey(last'.input)))
                  => \A w \in StructInputs :
                        (w.kind = "Struct" /\ WithdrawKey(w.ident) = OwningKey(last'.input))
                        => withdraw_cache_fields(STORAGE', w.ident, w.generics).res
                             = Err("EntryMissing", <<>>)]_vars

\* C9 witness: a block whose second method has no return type has failed with
\* MissingReturnType while another type is registered and its own key is not.
C9_Witness ==
    /\ last.macro = "impl_cached_method"
    /\ last.input = ImplHogeNoRet
    /\ FailedWith(last, "MissingReturnType")
    /\ DOMAIN STORAGE = {OwningKey(ImplFuga)}

\* ------------------------------------------------------------ a crate with two modules
\* tests/ui/pass_modules.rs: two modules, each with an annotated block and the
\* annotated struct of a type named Hoge.
Module(impl_, struct_) == [impl_ |-> impl_, struct_ |-> struct_]
ModuleDecls ==
    { Module(ImplHoge, StructHoge), Module(ImplHoge2, StructHoge2),
      Module(ImplHogeDoc, StructHoge), Module(ImplHogeT, StructHogeT),
      Module(ImplHogeConst, StructHoge) }
Modules == {1, 2}
Decl(m, kind) == [module |-> m, kind |-> kind]
IsExpanded(d) == \E i \in 1..Len(build.expanded) : build.expanded[i] = d

InitModules ==
    /\ STORAGE = <<>>
    /\ lock = 0
    /\ pc = [p \in Procs |-> "idle"]
    /\ call = [p \in Procs |-> NoCall]
    /\ result = [p \in Procs |-> NoResult]
    /\ inserted = [k \in StorageKeys |-> 0]
    /\ live = [k \in StorageKeys |-> <<>>]
    /\ nWithdrawn = [k \in StorageKeys |-> 0]
    /\ ncalls = 0
    /\ last = NoMacro
    /\ obj = NewHoge(1, 10)
    /\ ret = NoReturn
    /\ first = [m \in Methods |-> None]
    /\ ncall = [m \in Methods |-> 0]
    /\ evals = [m \in Methods |-> 0]
    /\ \E m1 \in ModuleDecls, m2 \in ModuleDecls :
          /\ m1.impl_.items # m2.impl_.items
          /\ build = [crate |-> <<m1, m2>>, expanded |-> <<>>, outs |-> <<>>]

\* The compiler expands the annotated block of module m.
ExpandImpl(m) ==
    LET r == impl_cached_method(STORAGE, <<>>, build.crate[m].impl_)
    IN /\ ~IsExpanded(Decl(m, "impl"))
       /\ STORAGE' = r.map
       /\ build' = [build EXCEPT !.expanded = Append(@, Decl(m, "impl")),
                                 !.outs = Append(@, r.out)]
       /\ UNCHANGED <<callers, last, runtime>>

\* The compiler expands the annotated struct of module m, after the module's block.
ExpandStruct(m) ==
    LET r == add_cache_field(STORAGE, <<>>, build.crate[m].struct_)
    IN /\ IsExpanded(Decl(m, "impl"))
       /\ ~IsExpanded(Decl(m, "struct"))
       /\ STORAGE' = r.map
       /\ build' = [build EXCEPT !.expanded = Append(@, Decl(m, "struct")),
                                 !.outs = Append(@, r.out)]
       /\ UNCHANGED <<callers, last, runtime>>

NextModules == \E m \in Modules : ExpandImpl(m) \/ ExpandStruct(m)

SpecModules == InitModules /\ [][NextModules]_vars

\* ------------------------------------------------------------ claims on the two modules
IsMethod(item) == item.kind = "Fn"
\* The slot of a method: a cell of the method's declared return type, under its name.
SlotOf(method) ==
    NamedField(method.ident,
               <<"::", "core", "::", "cell", "::", "OnceCell", "<">> \o method.output.val \o <<">">>)
SlotsOfBlock(impl_) ==
    LET ms == SelectSeq(impl_.items, IsMethod) IN [i \in 1..Len(ms) |-> SlotOf(ms[i])]
IsSlot(field) == field.ident \notin {"_phantom0", "_phantom1", "_phantom2"}
\* The slots of the struct of caches that an expansion of add_cache_field emits.
SlotsEmbedded(out) == SelectSeq(out.items[2].fields.named, IsSlot)
ExpansionOf(d) == build.outs[CHOOSE i \in 1..Len(build.expanded) : build.expanded[i] = d]
\* What has been expanded of module m succeeded, and its struct got its own slots.
ModuleGood(m) ==
    /\ IsExpanded(Decl(m, "impl")) => ExpansionOf(Decl(m, "impl")).diagnostic = None
    /\ IsExpanded(Decl(m, "struct"))
       => /\ ExpansionOf(Decl(m, "struct")).diagnostic = None
          /\ SlotsEmbedded(ExpansionOf(Decl(m, "struct"))) = SlotsOfBlock(build.crate[m].impl_)
\* No block is expanded between the block and the struct of the other module.
NotInterleaved ==
    \A i \in 1..Len(build.expanded) :
        build.expanded[i].kind = "impl"
        => LET other == Decl(3 - build.expanded[i].module, "impl")
               closed == Decl(3 - build.expanded[i].module, "struct")
           IN (\E j \in 1..(i - 1) : build.expanded[j] = other)
              => (\E j \in 1..(i - 1) : build.expanded[j] = closed)

\* C3 as claimed: in every order with each block before its own struct, every
\* expansion succeeds and each struct gets the slots of its own block.
C3_AnyOrder == \A m \in Modules : ModuleGood(m)

\* C3 as amended: the same, for the orders in which one module's block and struct
\* are both expanded before the other module's block.
C3_ModuleByModule == NotInterleaved => \A m \in Modules : ModuleGood(m)

\* C3 witness: both modules are expanded, one after the other, and the two structs
\* got different slots.
C3_Witness ==
    /\ Len(build.expanded) = 4
    /\ NotInterleaved
    /\ SlotsEmbedded(ExpansionOf(Decl(1, "struct"))) # SlotsEmbedded(ExpansionOf(Decl(2, "struct")))

\* ------------------------------------------------------------ run time
\* main() of the doc example and of the tests: an object is built with empty cache
\* fields, then its generated methods are called and its fields assigned.
Values == 0..MaxVal
Count(n) == IF n < MaxCount THEN n + 1 ELSE n

InitRun ==
    /\ STORAGE = <<>>
    /\ lock = 0
    /\ pc = [p \in Procs |-> "idle"]
    /\ call = [p \in Procs |-> NoCall]
    /\ result = [p \in Procs |-> NoResult]
    /\ inserted = [k \in StorageKeys |-> 0]
    /\ live = [k \in StorageKeys |-> <<>>]
    /\ nWithdrawn = [k \in StorageKeys |-> 0]
    /\ ncalls = 0
    /\ last = NoMacro
    /\ build = NoBuild
    /\ \E x \in Values, y \in Values : obj = NewHoge(x, y)
    /\ ret = NoReturn
    /\ first = [m \in Methods |-> None]
    /\ ncall = [m \in Methods |-> 0]
    /\ evals = [m \in Methods |-> 0]

\* hoge.m(); ret.fresh is what the original block would evaluate to at this call,
\* ret.calls the calls of generated methods made, hoge.m() and those in its block.
Call(m) ==
    LET r == CallGenerated(m, obj)
    IN /\ r.obj.x <= MaxVal + 1
       /\ obj' = r.obj
       /\ ret' = [method |-> m, val |-> r.val, fresh |-> OriginalBlock(m, obj).val,
                  calls |-> r.calls]
       /\ first' = [k \in Methods |->
                      IF first[k] = None /\ \E c \in r.calls : c.method = k
                      THEN Some((CHOOSE c \in r.calls : c.method = k).val) ELSE first[k]]
       /\ ncall' = [k \in Methods |->
                      IF \E c \in r.calls : c.method = k THEN Count(ncall[k]) ELSE ncall[k]]
       /\ evals' = [k \in Methods |-> IF k \in r.ran THEN Count(evals[k]) ELSE evals[k]]
       /\ UNCHANGED <<STORAGE, callers, last, build>>

\* hoge.x = v
SetX(v) ==
    /\ obj' = [obj EXCEPT !.x = v]
    /\ UNCHANGED <<STORAGE, callers, last, build, ret, first, ncall, evals>>

\* hoge.y = v
SetY(v) ==
    /\ obj' = [obj EXCEPT !.y = v]
    /\ UNCHANGED <<STORAGE, callers, last, build, ret, first, ncall, evals>>

NextRun ==
    \/ \E m \in Methods : Call(m)
    \/ \E v \in Values : SetX(v)
    \/ \E v \in Values : SetY(v)

SpecRun == InitRun /\ [][NextRun]_vars

\* ------------------------------------------------------------ claims on the run time
\* What the original body of m evaluates to on the object, written out.
BodyValue(m, o) ==
    CASE m = "two_times_x" -> 2 * o.x
      [] m = "x_plus_1" -> o.x + 1
      [] m = "two_times_x_plus_y" ->
            (IF o.__cache_fields__["two_times_x"] = None THEN 2 * o.x
             ELSE o.__cache_fields__["two_times_x"].val) + o.y

\* C10: the first call of a generated method returns the value of its original
\* body on the object at that call, every call returns what the first call
\* returned, and a populated slot holds that value and never changes.
C10_FirstValueForever ==
    [][\A m \in Methods :
          /\ (first[m] = None /\ first'[m] # None) => first'[m].val = BodyValue(m, obj)
          /\ ret'.method = m => first'[m] # None /\ ret'.val = first'[m].val
          /\ \A c \in ret'.calls : c.method = m => c.val = first'[m].val
          /\ first'[m] # None => obj'.__cache_fields__[m] = first'[m]
          /\ obj.__cache_fields__[m] # None
             => obj'.__cache_fields__[m] = obj.__cache_fields__[m]]_vars

\* C10 witness: two_times_x, called again after x was assigned, has returned the
\* value of its first call, which its body no longer evaluates to.
C10_Witness ==
    /\ ret.method = "two_times_x"
    /\ ncall["two_times_x"] >= 2
    /\ ret.val = first["two_times_x"].val
    /\ ret.val # ret.fresh

\* The two methods of tests/ui/pass_recursive_call.rs: the outer one calls the inner.
Outer == "two_times_x_plus_y"
Inner == "two_times_x"
Slot(o, m) == o.__cache_fields__[m]

\* C11: a call of the outer method with an empty slot fills an empty inner slot with
\* the inner body's value at that time and leaves a filled inner slot as it is, and
\* stores the inner slot's value plus y in its own slot; a call with a filled slot
\* changes nothing; no step, a call of the inner method or an assignment to a field
\* included, changes a filled outer slot, and a call of the inner method only ever
\* fills its own slot.
C11_IndependentSlots ==
    [][/\ Call(Outer)
          => IF Slot(obj, Outer) = None
             THEN /\ Slot(obj', Inner)
                       = (IF Slot(obj, Inner) = None THEN Some(2 * obj.x) ELSE Slot(obj, Inner))
                  /\ Slot(obj', Outer) = Some(Slot(obj', Inner).val + obj.y)
                  /\ ret'.val = Slot(obj', Outer).val
             ELSE /\ obj' = obj
                  /\ ret'.val = Slot(obj, Outer).val
       /\ Call(Inner)
          => /\ Slot(obj', Outer) = Slot(obj, Outer)
             /\ Slot(obj', Inner)
                  = (IF Slot(obj, Inner) = None THEN Some(2 * obj.x) ELSE Slot(obj, Inner))
       /\ Slot(obj, Outer) # None => Slot(obj', Outer) = Slot(obj, Outer)]_vars

\* C11 witness: the first call of the outer method has reused an inner slot filled
\* before x was assigned, so its value is not what the two bodies give now.
C11_Witness ==
    /\ ret.method = Outer
    /\ ncall[Outer] = 1
    /\ ncall[Inner] >= 2
    /\ evals[Inner] = 1
    /\ Slot(obj, Inner).val # 2 * obj.x
    /\ ret.val = Slot(obj, Inner).val + obj.y
    /\ Slot(obj, Outer) = Some(ret.val)

\* The struct of caches that a successful expansion of add_cache_field emits.
Companion(out) == out.items[2]
IsMarker(field) == ~IsSlot(field)
IsFilteredOut(param) == param.kind \in {"Lifetime", "Const"}
IsKept(param) == param.kind = "Type"
IsIdent(t) == t \notin {"<", ",", ">"}
\* The last step was an application of add_cache_field that succeeded.
Embedded == last'.macro = "add_cache_field" /\ last'.out.diagnostic = None
\* The slot fields of the companion are the fields the withdrawal returned, in order,
\* and come first; its parameters are the owner's type parameters, in order.
SlotsAndParams ==
    LET fields == Companion(last'.out).fields.named
        slots == withdraw_cache_fields(STORAGE, last'.input.ident, last'.input.generics).res.val
        kept == SelectSeq(last'.input.generics.params, IsKept)
    IN /\ SelectSeq(fields, IsSlot) = slots
       /\ SubSeq(fields, 1, Len(slots)) = slots
       /\ SelectSeq(Companion(last'.out).ty_generics, IsIdent) = [i \in 1..Len(kept) |-> kept[i].ident]

\* C12 as claimed: the companion of a successful embedding has the slot fields
\* returned by the withdrawal, in order, one marker field per lifetime or const
\* parameter of the owning type, and the owner's type parameters as its parameters.
C12_MarkerPerFilteredOut ==
    [][Embedded
       => /\ SlotsAndParams
          /\ Len(SelectSeq(Companion(last'.out).fields.named, IsMarker))
               = Len(SelectSeq(last'.input.generics.params, IsFilteredOut))]_vars

\* C12 as amended: the same, with one marker field per type parameter of the owning
\* type, the i-th (from 0) named _phantom{i} and of type PhantomData of that
\* parameter, and none for the lifetime and const parameters.
C12_MarkerPerTypeParam ==
    [][Embedded
       => /\ SlotsAndParams
          /\ LET kept == SelectSeq(last'.input.generics.params, IsKept)
                 markers == SelectSeq(Companion(last'.out).fields.named, IsMarker)
             IN /\ Len(markers) = Len(kept)
                /\ \A i \in 1..Len(kept) :
                      /\ markers[i].ident = PhantomIdent(i - 1)
                      /\ markers[i].ty = <<"::", "core", "::", "marker", "::", "PhantomData", "<">>
                                          \o kept[i].tokens \o <<">">>]_vars

\* C12 witness: the struct with a lifetime, a type and a const parameter has been
\* embedded; its companion has one slot and one marker, for the type parameter.
C12_Witness ==
    /\ last.macro = "add_cache_field"
    /\ last.input = StructHogeComplex
    /\ last.out.diagnostic = None
    /\ Len(Companion(last.out).fields.named) = 2
    /\ Companion(last.out).fields.named[2].ident = "_phantom0"
    /\ Companion(last.out).ty_generics = <<"<", "T", ">">>

\* What the function behind the macro of the last step returned, on the storage
\* before the step.
AuxResult ==
    IF last'.macro = "impl_cached_method"
    THEN impl_cached_method_aux(STORAGE, last'.args, last'.input).res
    ELSE add_cache_field_aux(STORAGE, last'.args, last'.input).res
ErrorKinds ==
    { "MissingReturnType", "UnsupportedImplKind", "UnexpectedArguments", "UnnamedFields",
      "DuplicateRegistration", "EntryMissing", "GenericsMismatch",
      "ExpectedImpl", "ExpectedStruct", "ExpectedTypePath" }

\* C13: an application of either macro that fails emits its error and the item it
\* was applied to, unchanged, and nothing else; one that succeeds emits no error.
C13_FailureEmitsInputUnchanged ==
    [][IF AuxResult.ok
       THEN last'.out.diagnostic = None
       ELSE /\ AuxResult.kind \in ErrorKinds
            /\ last'.out.diagnostic = Some(AuxResult)
            /\ last'.out.items = <<last'.input>>]_vars

\* C13 witness: a block whose first method can be rewritten and whose second has no
\* return type has failed, and the block emitted has its first method as written.
C13_Witness ==
    /\ last.macro = "impl_cached_method"
    /\ last.input = ImplHogeNoRet
    /\ FailedWith(last, "MissingReturnType")
    /\ Len(last.out.items) = 1
    /\ last.out.items[1].items = <<MethodTwoTimesX, MethodNoReturn>>
    /\ rewrite_cached_method(MethodTwoTimesX).ok

\* The method names of the cache fields of a stored value.
SlotNames(value) == [i \in 1..Len(value.cache_fields) |-> ParseNamed(value.cache_fields[i]).ident]
Distinct(seq) == \A i, j \in 1..Len(seq) : seq[i] = seq[j] => i = j

\* C14: in every entry of the storage the cache fields have distinct method names.
C14_SlotNamesUnique == \A k \in DOMAIN STORAGE : Distinct(SlotNames(STORAGE[k]))

\* The last step was an application of impl_cached_method that succeeded.
Accepted == last'.macro = "impl_cached_method" /\ last'.out.diagnostic = None

\* C15: an accepted block is emitted with as many items as written; an item that
\* is not a method is emitted as written, at its position; a method keeps its name
\* and position and returns a reference to its declared return type; and the entry
\* registered holds one cache field per method, of the method's name and declared
\* return type, in the order of declaration, and no other field.
C15_OneSlotPerMethod ==
    [][Accepted
       => LET in == last'.input
              out == last'.out.items[1]
              stored == ParseFields(STORAGE'[OwningKey(in)])
          IN /\ Len(last'.out.items) = 1
             /\ Len(out.items) = Len(in.items)
             /\ \A i \in 1..Len(in.items) :
                   IF IsMethod(in.items[i])
                   THEN /\ IsMethod(out.items[i])
                        /\ out.items[i].ident = in.items[i].ident
                        /\ out.items[i].output = Some(<<"&">> \o in.items[i].output.val)
                   ELSE out.items[i] = in.items[i]
             /\ stored = SlotsOfBlock(in)
             /\ Len(stored) = Len(SelectSeq(in.items, IsMethod))]_vars

\* C15 witness: the block with a const item and a method has been accepted; the
\* const item is emitted first, as written, and one cache field is registered.
C15_Witness ==
    /\ last.macro = "impl_cached_method"
    /\ last.input = ImplHogeConst
    /\ last.out.diagnostic = None
    /\ last.out.items[1].items[1] = ConstItem
    /\ last.out.items[1].items[2].output = Some(<<"&", "u64">>)
    /\ contains_key(STORAGE, OwningKey(ImplHogeConst))
    /\ STORAGE[OwningKey(ImplHogeConst)].cache_fields = <<to_string(FieldTwoTimesX)>>

\* C16: the original body of each method runs at most once on the object; a call
\* of a method whose slot is filled returns the stored value, runs no body and
\* leaves the object, fields included, as it is; a call of a method whose slot is
\* empty runs its body once, and for x_plus_1 this is the only call that adds 1 to x.
C16_BodyEvaluatedOnce ==
    [][\A m \in Methods :
          /\ evals'[m] <= 1
          /\ (Call(m) /\ Slot(obj, m) # None)
             => /\ obj' = obj
                /\ evals' = evals
                /\ ret'.val = Slot(obj, m).val
          /\ (Call(m) /\ Slot(obj, m) = None)
             => /\ evals[m] = 0 /\ evals'[m] = 1
                /\ m = "x_plus_1" => obj'.x = obj.x + 1]_vars

\* C16 witness: x_plus_1 has been called again with its slot filled; its body ran
\* once, and the value returned is not the one the body would give now.
C16_Witness ==
    /\ ret.method = "x_plus_1"
    /\ ncall["x_plus_1"] >= 2
    /\ evals["x_plus_1"] = 1
    /\ ret.val = Slot(obj, "x_plus_1").val
    /\ ret.val # ret.fresh

HasReturnType(item) == item.kind = "Fn" => item.output # None
\* The name of the first method of the block that has no return type.
FirstWithoutReturnType(items) ==
    items[CHOOSE i \in 1..Len(items) :
             /\ ~HasReturnType(items[i])
             /\ \A j \in 1..(i - 1) : HasReturnType(items[j])].ident

\* C17: an application of impl_cached_method with arguments fails with
\* UnexpectedArguments whatever it is applied to; without arguments, a block that
\* implements a trait fails with UnsupportedImplKind whatever its methods are; and
\* without arguments, a block without trait that has a method without return type
\* fails with MissingReturnType, naming the first such method, whatever is registered.
C17_CheckOrder ==
    last.macro = "impl_cached_method"
    => /\ last.args # <<>> => FailedWith(last, "UnexpectedArguments")
       /\ (last.args = <<>> /\ last.input.kind = "Impl")
          => IF last.input.trait_ # None
             THEN FailedWith(last, "UnsupportedImplKind")
             ELSE (\E i \in 1..Len(last.input.items) : ~HasReturnType(last.input.items[i]))
                  => /\ FailedWith(last, "MissingReturnType")
                     /\ last.out.diagnostic.val.payload
                          = FirstWithoutReturnType(last.input.items)

\* C17 witness: a block for Hoge with a method without return type has failed with
\* MissingReturnType while an entry for Hoge is registered.
C17_Witness ==
    /\ last.macro = "impl_cached_method"
    /\ last.args = <<>>
    /\ last.input = ImplHogeNoRet
    /\ FailedWith(last, "MissingReturnType")
    /\ contains_key(STORAGE, OwningKey(ImplHogeNoRet))

\* C18: an application of add_cache_field that fails with UnexpectedArguments or
\* UnnamedFields leaves the storage as it was; if the item is a struct with an
\* entry under its name, then applying add_cache_field without arguments to a
\* struct of that name with named fields and the registered signature succeeds on
\* the storage left, its companion holding the registered cache fields.
C18_EarlyFailureKeepsEntry ==
    [][(/\ last'.macro = "add_cache_field"
        /\ FailedWith(last', "UnexpectedArguments") \/ FailedWith(last', "UnnamedFields"))
       => /\ STORAGE' = STORAGE
          /\ (last'.input.kind = "Struct" /\ contains_key(STORAGE, WithdrawKey(last'.input.ident)))
             => LET key == WithdrawKey(last'.input.ident)
                IN \A w \in StructInputs :
                      (/\ w.kind = "Struct"
                       /\ w.fields.kind = "Named"
                       /\ WithdrawKey(w.ident) = key
                       /\ GenericsCoincide(w.generics, STORAGE[key]))
                      => LET later == add_cache_field(STORAGE', <<>>, w)
                         IN /\ later.out.diagnostic = None
                            /\ SelectSeq(Companion(later.out).fields.named, IsSlot)
                                 = ParseFields(STORAGE[key])
                            /\ ~contains_key(later.map, key)]_vars

\* C18 witness: add_cache_field has failed with UnnamedFields on the tuple struct
\* Hoge while the entry of the block with two methods is registered for Hoge.
C18_Witness ==
    /\ last.macro = "add_cache_field"
    /\ last.input = StructHogeTuple
    /\ FailedWith(last, "UnnamedFields")
    /\ contains_key(STORAGE, WithdrawKey("Hoge"))
    /\ ParseFields(STORAGE[WithdrawKey("Hoge")]) = SlotsOfBlock(ImplHogeDoc)
    /\ add_cache_field(STORAGE, <<>>, StructHoge).out.diagnostic = None

\* C19: the struct emitted by a successful application of add_cache_field has the
\* name and the generics of the struct written, and its fields are the fields
\* written, in order, followed by one field, __cache_fields__, whose type is the
\* companion struct emitted with it, with the companion's parameters.
C19_OneFieldAppended ==
    (last.macro = "add_cache_field" /\ last.out.diagnostic = None)
    => LET in == last.input
           out == last.out.items[1]
           n == Len(in.fields.named)
       IN /\ Len(last.out.items) = 2
          /\ out.kind = "Struct"
          /\ out.ident = in.ident
          /\ out.generics = in.generics
          /\ out.fields.kind = "Named"
          /\ Len(out.fields.named) = n + 1
          /\ SubSeq(out.fields.named, 1, n) = in.fields.named
          /\ out.fields.named[n + 1].ident = "__cache_fields__"
          /\ out.fields.named[n + 1].ty
               = <<Companion(last.out).ident>> \o Companion(last.out).ty_generics

\* C19 witness: struct Hoge<T> with the fields x and t has been embedded and has
\* the three fields x, t and __cache_fields__ of the companion's type with <T>.
C19_Witness ==
    /\ last.macro = "add_cache_field"
    /\ last.input = StructHogeT
    /\ last.out.diagnostic = None
    /\ last.out.items[1].fields.named
         = <<FieldX, FieldT,
             NamedField("__cache_fields__",
                        <<"__struct_cache_field__HogeCacheFields", "<", "T", ">">>)>>

\* A key printed from a path of several segments, and the name it ends with.
IsQualifiedKey(k) == \E i \in 1..Len(k) : k[i] = "::"
LastName(k) == k[Len(k)]
IsPathBlock(input) == input.kind = "Impl" /\ input.self_ty.kind = "Path"

\* C20: for the block that impl_cached_method is applied to and every struct:
\* the key of a block whose self type is a single segment, with or without
\* generic arguments, is the key of the struct of that name, and the key of a block
\* whose self type has several segments is the key of no struct; an accepted block
\* of the latter kind is stored under that key, no application of add_cache_field
\* removes or changes its entry, and add_cache_field applied without arguments to
\* the struct with named fields that the key ends with fails with EntryMissing
\* when no entry is stored under the struct's own name.
C20_QualifiedKeyNeverWithdrawn ==
    [][/\ \A s \in StructInputs :
             (last'.macro = "impl_cached_method" /\ IsPathBlock(last'.input) /\ s.kind = "Struct")
             => LET b == last'.input
                    segs == b.self_ty.segments
                IN /\ (Len(segs) = 1 /\ segs[1].ident = s.ident)
                      => RegisterKey(b.self_ty) = WithdrawKey(s.ident)
                   /\ Len(segs) > 1
                      => /\ RegisterKey(b.self_ty) # WithdrawKey(s.ident)
                         /\ IsQualifiedKey(RegisterKey(b.self_ty))
       /\ (Accepted /\ Len(last'.input.self_ty.segments) > 1)
          => /\ IsQualifiedKey(OwningKey(last'.input))
             /\ contains_key(STORAGE', OwningKey(last'.input))
       /\ last'.macro = "add_cache_field"
          => /\ \A k \in DOMAIN STORAGE :
                   IsQualifiedKey(k) => contains_key(STORAGE', k) /\ STORAGE'[k] = STORAGE[k]
             /\ (/\ last'.args = <<>>
                 /\ last'.input.kind = "Struct"
                 /\ last'.input.fields.kind = "Named"
                 /\ ~contains_key(STORAGE, WithdrawKey(last'.input.ident))
                 /\ \E k \in DOMAIN STORAGE :
                       IsQualifiedKey(k) /\ LastName(k) = last'.input.ident)
                => FailedWith(last', "EntryMissing")]_vars

\* C20 witness: the block impl module1::Hoge is registered, add_cache_field on
\* struct Hoge has failed with EntryMissing, and the block's entry is still stored.
C20_Witness ==
    /\ last.macro = "add_cache_field"
    /\ last.input = StructHoge
    /\ FailedWith(last, "EntryMissing")
    /\ DOMAIN STORAGE = {RegisterKey(TyModule1Hoge)}
    /\ ParseFields(STORAGE[RegisterKey(TyModule1Hoge)]) = SlotsOfBlock(ImplModule1Hoge)

\* ------------------------------------------------------------ fair scheduling
\* A caller inside one of the two functions takes its next step: it acquires the
\* lock when the lock is free, or runs the code it holds the lock for and returns.
Proceed(p) ==
    \/ RegisterLockContains(p)
    \/ RegisterContains(p)
    \/ RegisterLockInsert(p)
    \/ RegisterInsert(p)
    \/ WithdrawLock(p)
    \/ WithdrawRemove(p)

\* The callers of Spec making a finite number of calls, at most MaxFairCalls.
NextFair ==
    \E p \in Procs :
        \/ \E in \in RegisterInputs : ncalls < MaxFairCalls /\ RegisterCall(p, in)
        \/ \E in \in WithdrawInputs : ncalls < MaxFairCalls /\ WithdrawCall(p, in)
        \/ Proceed(p)

\* Each caller is scheduled again and again while it can take a step.
SpecFair == Init /\ [][NextFair]_vars /\ \A p \in Procs : WF_vars(Proceed(p))

\* ------------------------------------------------------------ claims on termination
Holding == {"r53_contains", "r60_insert", "w71_remove"}
Waiting == {"r53_lock", "r60_lock", "w70_lock"}
\* The call of p has returned Ok or an error.
Completed(p) == pc[p] = "idle" /\ result[p] # NoResult

\* C21: the lock is held by a caller exactly while it is between an acquisition
\* and the end of the code under that guard, so never by a caller that has
\* returned or that waits for the lock; whenever a caller is inside a function some
\* caller can take a step; and every call made eventually returns Ok or an error.
C21_EveryCallCompletes ==
    /\ [](\A p \in Procs :
             /\ (lock = p) <=> (pc[p] \in Holding)
             /\ pc[p] \in Holding \cup Waiting \cup {"idle"})
    /\ []((\E p \in Procs : pc[p] # "idle") => (\E p \in Procs : ENABLED Proceed(p)))
    /\ \A p \in Procs : (pc[p] # "idle") ~> Completed(p)

\* C21 witness: a caller that found its key absent waits for the lock at line 60
\* while another caller holds it inside withdraw_cache_fields.
C21_Witness ==
    \E p, q \in Procs :
        /\ pc[p] = "r60_lock"
        /\ pc[q] = "w71_remove"
        /\ lock = q
        /\ result[p] = NoResult

====
